---- MODULE Spec2Model ----
(***************************************************************************)
(* Model of homeassistant/components/esphome/domain_data.py: the           *)
(* DomainData registry stored in hass.data[DOMAIN], its entry-data map,    *)
(* its store map and its two LRU caches.                                   *)
(*                                                                         *)
(* Objects have identity.  A DomainData object is an index into the        *)
(* sequence `instances`, an ESPHomeStorage object an index into the        *)
(* sequence `storages`; constructing an object appends to the sequence.    *)
(* An Optional value is a set: {} is None and {v} is the value v.          *)
(***************************************************************************)
EXTENDS Integers, Sequences, FiniteSets, TLC

VARIABLES
    hass_data,     \* hass.data[DOMAIN]: 0 when the key is absent, else a DomainData index
    instances,     \* every DomainData object constructed so far, by index
    storages,      \* every ESPHomeStorage object constructed so far, by index
    ret,           \* the last call: its name, arguments, return value and exception
    first_get,     \* observer: Optional instance returned by the first DomainData.get
    registered,    \* observer: entry id -> Optional data of the last successful set not yet popped
    first_store,   \* observer: entry id -> Optional handle returned by the first get_or_create_store
    services_log,  \* observer: addresses of the services cache by last set or hit, oldest first
    mtu_log,       \* observer: addresses of the MTU cache by last set or hit, oldest first
    services_live, \* observer: address -> services a 128-entry LRU cache holds after the calls so far
    mtu_live,      \* observer: address -> MTU a 128-entry LRU cache holds after the calls so far
    probes,        \* driver: number of cache calls issued after the warm-up
    loaded         \* driver: entry id -> whether the caller has loaded the entry

vars == <<hass_data, instances, storages, ret, first_get, registered,
          first_store, services_log, mtu_log, services_live, mtu_live,
          probes, loaded>>

program_vars == <<hass_data, instances, storages>>

---------------------------------------------------------------------------
(* Program constants *)

STORAGE_VERSION == 1
MAX_CACHED_SERVICES == 128
DOMAIN_PREFIX == "esphome."

(* Bounds of the model *)

MaxStorages == 3        \* ESPHomeStorage objects constructed in one run
MaxProbes == 3          \* cache calls issued once both caches are warm

EntryIds == {"e1", "e2"}                 \* ConfigEntry.entry_id values
EntryDatas == {"d1", "d2"}               \* RuntimeEntryData objects
Addresses == {1, 2}                      \* addresses used by Spec
Services == {"s1", "s2"}                 \* BleakGATTServiceCollection objects
Mtus == {23, 517}                        \* MTU values
ProbeAddresses == {1, 2, MAX_CACHED_SERVICES + 1, MAX_CACHED_SERVICES + 2}

None == {}
Some(v) == {v}

---------------------------------------------------------------------------
(* Python dict, as a function whose domain is the set of keys present *)

EmptyDict == << >>

DictSet(d, k, v) == [x \in (DOMAIN d) \cup {k} |-> IF x = k THEN v ELSE d[x]]

DictPop(d, k) == [x \in (DOMAIN d) \ {k} |-> d[x]]

---------------------------------------------------------------------------
(* lru.LRU: a size and the items as <<key, value>> pairs, most recently    *)
(* used first                                                              *)

LRU(size) == [size |-> size, items |-> << >>]

LRUKeys(c) == {c.items[i][1] : i \in 1..Len(c.items)}

LRUIndex(c, k) == CHOOSE i \in 1..Len(c.items) : c.items[i][1] = k

LRUWithout(c, k) ==
    SelectSeq(c.items, LAMBDA it : it[1] # k)

\* c.get(k): the value or None; a hit moves the entry to the front
LRUGetValue(c, k) ==
    IF k \in LRUKeys(c) THEN Some(c.items[LRUIndex(c, k)][2]) ELSE None

LRUGetCache(c, k) ==
    IF k \in LRUKeys(c)
    THEN [c EXCEPT !.items = <<c.items[LRUIndex(c, k)]>> \o LRUWithout(c, k)]
    ELSE c

\* c[k] = v: the entry goes to the front; a new key on a full cache drops the last entry
LRUSetItem(c, k, v) ==
    LET front == <<<<k, v>>>> \o LRUWithout(c, k)
    IN  [c EXCEPT !.items = IF Len(front) > c.size
                            THEN SubSeq(front, 1, c.size)
                            ELSE front]

\* c.pop(k, None)
LRUPop(c, k) == [c EXCEPT !.items = LRUWithout(c, k)]

---------------------------------------------------------------------------
(* The dataclass DomainData and its field defaults *)

\* faulty variant: both caches are built one entry too large
DomainDataNewTooLarge ==
    [entry_datas         |-> EmptyDict,
     stores              |-> EmptyDict,
     gatt_services_cache |-> LRU(MAX_CACHED_SERVICES + 1),
     gatt_mtu_cache      |-> LRU(MAX_CACHED_SERVICES + 1)]

\* faulty variant: the services cache is built twice as large
DomainDataNewServicesDoubled ==
    [entry_datas         |-> EmptyDict,
     stores              |-> EmptyDict,
     gatt_services_cache |-> LRU(2 * MAX_CACHED_SERVICES),
     gatt_mtu_cache      |-> LRU(MAX_CACHED_SERVICES)]

DomainDataNew ==
    [entry_datas         |-> EmptyDict,
     stores              |-> EmptyDict,
     gatt_services_cache |-> LRU(MAX_CACHED_SERVICES),
     gatt_mtu_cache      |-> LRU(MAX_CACHED_SERVICES)]

ESPHomeStorageNew(entry_id) ==
    [hass    |-> "hass",
     version |-> STORAGE_VERSION,
     key     |-> DOMAIN_PREFIX \o entry_id,
     encoder |-> "JSONEncoder"]

Call(op, arg, val, exc) == [op |-> op, arg |-> arg, val |-> val, exc |-> exc]

---------------------------------------------------------------------------
(* DomainData.get(hass) *)

\* faulty variant: the presence check is dropped, every call constructs a registry
GetAlwaysConstructs ==
    /\ instances' = Append(instances, DomainDataNew)
    /\ hass_data' = Len(instances) + 1
    /\ ret' = Call("get", <<>>, Some(Len(instances) + 1), "")
    /\ UNCHANGED storages

\* faulty variant: hass.data.setdefault(DOMAIN, cls()), a registry is
\* constructed on every call and dropped when the slot is occupied
GetSetdefault ==
    /\ instances' = Append(instances, DomainDataNew)
    /\ IF hass_data # 0
       THEN /\ ret' = Call("get", <<>>, Some(hass_data), "")
            /\ UNCHANGED hass_data
       ELSE /\ hass_data' = Len(instances) + 1
            /\ ret' = Call("get", <<>>, Some(Len(instances) + 1), "")
    /\ UNCHANGED storages

Get ==
    IF hass_data # 0
    THEN /\ ret' = Call("get", <<>>, Some(hass_data), "")
         /\ UNCHANGED <<hass_data, instances, storages>>
    ELSE /\ instances' = Append(instances, DomainDataNew)
         /\ hass_data' = Len(instances) + 1
         /\ ret' = Call("get", <<>>, Some(Len(instances) + 1), "")
         /\ UNCHANGED storages

---------------------------------------------------------------------------
(* Entry runtime data *)

\* faulty variant: the lookup removes the entry, as pop_entry_data does
GetEntryDataPops(self, entry_id) ==
    IF entry_id \in DOMAIN instances[self].entry_datas
    THEN /\ instances' = [instances EXCEPT ![self].entry_datas = DictPop(@, entry_id)]
         /\ ret' = Call("get_entry_data", <<entry_id>>,
                        Some(instances[self].entry_datas[entry_id]), "")
         /\ UNCHANGED <<hass_data, storages>>
    ELSE /\ ret' = Call("get_entry_data", <<entry_id>>, None, "KeyError")
         /\ UNCHANGED <<hass_data, instances, storages>>

GetEntryData(self, entry_id) ==
    /\ IF entry_id \in DOMAIN instances[self].entry_datas
       THEN ret' = Call("get_entry_data", <<entry_id>>,
                        Some(instances[self].entry_datas[entry_id]), "")
       ELSE ret' = Call("get_entry_data", <<entry_id>>, None, "KeyError")
    /\ UNCHANGED <<hass_data, instances, storages>>

\* faulty variant: the already-set check is dropped
SetEntryDataOverwrites(self, entry_id, entry_data) ==
    /\ instances' = [instances EXCEPT ![self].entry_datas =
                         DictSet(@, entry_id, entry_data)]
    /\ ret' = Call("set_entry_data", <<entry_id, entry_data>>, None, "")
    /\ UNCHANGED <<hass_data, storages>>

\* faulty variant: an identifier is refused once any data is registered
SetEntryDataRefusesSecondEntry(self, entry_id, entry_data) ==
    IF DOMAIN instances[self].entry_datas # {}
    THEN /\ ret' = Call("set_entry_data", <<entry_id, entry_data>>, None, "ValueError")
         /\ UNCHANGED <<hass_data, instances, storages>>
    ELSE /\ instances' = [instances EXCEPT ![self].entry_datas =
                              DictSet(@, entry_id, entry_data)]
         /\ ret' = Call("set_entry_data", <<entry_id, entry_data>>, None, "")
         /\ UNCHANGED <<hass_data, storages>>

SetEntryData(self, entry_id, entry_data) ==
    IF entry_id \in DOMAIN instances[self].entry_datas
    THEN /\ ret' = Call("set_entry_data", <<entry_id, entry_data>>, None, "ValueError")
         /\ UNCHANGED <<hass_data, instances, storages>>
    ELSE /\ instances' = [instances EXCEPT ![self].entry_datas =
                              DictSet(@, entry_id, entry_data)]
         /\ ret' = Call("set_entry_data", <<entry_id, entry_data>>, None, "")
         /\ UNCHANGED <<hass_data, storages>>

\* faulty variant: the entry is returned but not removed
PopEntryDataKeeps(self, entry_id) ==
    /\ IF entry_id \in DOMAIN instances[self].entry_datas
       THEN ret' = Call("pop_entry_data", <<entry_id>>,
                        Some(instances[self].entry_datas[entry_id]), "")
       ELSE ret' = Call("pop_entry_data", <<entry_id>>, None, "KeyError")
    /\ UNCHANGED <<hass_data, instances, storages>>

\* faulty variant: pop with a default, self._entry_datas.pop(entry.entry_id, None)
PopEntryDataDefault(self, entry_id) ==
    /\ instances' = [instances EXCEPT ![self].entry_datas = DictPop(@, entry_id)]
    /\ IF entry_id \in DOMAIN instances[self].entry_datas
       THEN ret' = Call("pop_entry_data", <<entry_id>>,
                        Some(instances[self].entry_datas[entry_id]), "")
       ELSE ret' = Call("pop_entry_data", <<entry_id>>, None, "")
    /\ UNCHANGED <<hass_data, storages>>

\* faulty variant: the unload also drops the entry's store handle
PopEntryDataDropsStore(self, entry_id) ==
    IF entry_id \in DOMAIN instances[self].entry_datas
    THEN /\ instances' = [instances EXCEPT ![self].entry_datas = DictPop(@, entry_id),
                                           ![self].stores = DictPop(@, entry_id)]
         /\ ret' = Call("pop_entry_data", <<entry_id>>,
                        Some(instances[self].entry_datas[entry_id]), "")
         /\ UNCHANGED <<hass_data, storages>>
    ELSE /\ ret' = Call("pop_entry_data", <<entry_id>>, None, "KeyError")
         /\ UNCHANGED <<hass_data, instances, storages>>

PopEntryData(self, entry_id) ==
    IF entry_id \in DOMAIN instances[self].entry_datas
    THEN /\ instances' = [instances EXCEPT ![self].entry_datas = DictPop(@, entry_id)]
         /\ ret' = Call("pop_entry_data", <<entry_id>>,
                        Some(instances[self].entry_datas[entry_id]), "")
         /\ UNCHANGED <<hass_data, storages>>
    ELSE /\ ret' = Call("pop_entry_data", <<entry_id>>, None, "KeyError")
         /\ UNCHANGED <<hass_data, instances, storages>>

---------------------------------------------------------------------------
(* Storage handle: the default argument of setdefault is evaluated, so an  *)
(* ESPHomeStorage is constructed, before setdefault looks the key up       *)

\* faulty variant: plain assignment instead of setdefault
GetOrCreateStoreReplaces(self, entry_id) ==
    /\ storages' = Append(storages, ESPHomeStorageNew(entry_id))
    /\ instances' = [instances EXCEPT ![self].stores =
                         DictSet(@, entry_id, Len(storages) + 1)]
    /\ ret' = Call("get_or_create_store", <<entry_id>>, Some(Len(storages) + 1), "")
    /\ UNCHANGED hass_data

\* faulty variant: the constructed handle is returned, not the result of setdefault
GetOrCreateStoreReturnsNew(self, entry_id) ==
    /\ storages' = Append(storages, ESPHomeStorageNew(entry_id))
    /\ IF entry_id \in DOMAIN instances[self].stores
       THEN UNCHANGED instances
       ELSE instances' = [instances EXCEPT ![self].stores =
                              DictSet(@, entry_id, Len(storages) + 1)]
    /\ ret' = Call("get_or_create_store", <<entry_id>>, Some(Len(storages) + 1), "")
    /\ UNCHANGED hass_data

GetOrCreateStore(self, entry_id) ==
    LET new == Len(storages) + 1
    IN  /\ storages' = Append(storages, ESPHomeStorageNew(entry_id))
        /\ IF entry_id \in DOMAIN instances[self].stores
           THEN /\ ret' = Call("get_or_create_store", <<entry_id>>,
                               Some(instances[self].stores[entry_id]), "")
                /\ UNCHANGED instances
           ELSE /\ instances' = [instances EXCEPT ![self].stores =
                                     DictSet(@, entry_id, new)]
                /\ ret' = Call("get_or_create_store", <<entry_id>>, Some(new), "")
        /\ UNCHANGED hass_data

---------------------------------------------------------------------------
(* GATT services cache *)

\* faulty variant: the lookup does not count as a use of the entry
GetGattServicesCacheNoTouch(self, address) ==
    /\ ret' = Call("get_gatt_services_cache", <<address>>,
                   LRUGetValue(instances[self].gatt_services_cache, address), "")
    /\ UNCHANGED <<hass_data, instances, storages>>

GetGattServicesCache(self, address) ==
    /\ ret' = Call("get_gatt_services_cache", <<address>>,
                   LRUGetValue(instances[self].gatt_services_cache, address), "")
    /\ instances' = [instances EXCEPT ![self].gatt_services_cache =
                         LRUGetCache(@, address)]
    /\ UNCHANGED <<hass_data, storages>>

\* faulty variant: setdefault instead of assignment, a present entry keeps its value
SetGattServicesCacheKeepsOld(self, address, services) ==
    /\ instances' = [instances EXCEPT ![self].gatt_services_cache =
                         IF address \in LRUKeys(@)
                         THEN LRUGetCache(@, address)
                         ELSE LRUSetItem(@, address, services)]
    /\ ret' = Call("set_gatt_services_cache", <<address, services>>, None, "")
    /\ UNCHANGED <<hass_data, storages>>

SetGattServicesCache(self, address, services) ==
    /\ instances' = [instances EXCEPT ![self].gatt_services_cache =
                         LRUSetItem(@, address, services)]
    /\ ret' = Call("set_gatt_services_cache", <<address, services>>, None, "")
    /\ UNCHANGED <<hass_data, storages>>

ClearGattServicesCache(self, address) ==
    /\ instances' = [instances EXCEPT ![self].gatt_services_cache = LRUPop(@, address)]
    /\ ret' = Call("clear_gatt_services_cache", <<address>>, None, "")
    /\ UNCHANGED <<hass_data, storages>>

(* GATT MTU cache *)

\* faulty variant: subscript instead of get, self._gatt_mtu_cache[address]
GetGattMtuCacheSubscript(self, address) ==
    /\ IF address \in LRUKeys(instances[self].gatt_mtu_cache)
       THEN ret' = Call("get_gatt_mtu_cache", <<address>>,
                        LRUGetValue(instances[self].gatt_mtu_cache, address), "")
       ELSE ret' = Call("get_gatt_mtu_cache", <<address>>, None, "KeyError")
    /\ instances' = [instances EXCEPT ![self].gatt_mtu_cache = LRUGetCache(@, address)]
    /\ UNCHANGED <<hass_data, storages>>

GetGattMtuCache(self, address) ==
    /\ ret' = Call("get_gatt_mtu_cache", <<address>>,
                   LRUGetValue(instances[self].gatt_mtu_cache, address), "")
    /\ instances' = [instances EXCEPT ![self].gatt_mtu_cache = LRUGetCache(@, address)]
    /\ UNCHANGED <<hass_data, storages>>

\* faulty variant: the MTU is written to the services cache
SetGattMtuCacheWrongField(self, address, mtu) ==
    /\ instances' = [instances EXCEPT ![self].gatt_services_cache =
                         LRUSetItem(@, address, mtu)]
    /\ ret' = Call("set_gatt_mtu_cache", <<address, mtu>>, None, "")
    /\ UNCHANGED <<hass_data, storages>>

SetGattMtuCache(self, address, mtu) ==
    /\ instances' = [instances EXCEPT ![self].gatt_mtu_cache = LRUSetItem(@, address, mtu)]
    /\ ret' = Call("set_gatt_mtu_cache", <<address, mtu>>, None, "")
    /\ UNCHANGED <<hass_data, storages>>

\* faulty variant: pop without a default, self._gatt_mtu_cache.pop(address)
ClearGattMtuCacheNoDefault(self, address) ==
    /\ instances' = [instances EXCEPT ![self].gatt_mtu_cache = LRUPop(@, address)]
    /\ IF address \in LRUKeys(instances[self].gatt_mtu_cache)
       THEN ret' = Call("clear_gatt_mtu_cache", <<address>>, None, "")
       ELSE ret' = Call("clear_gatt_mtu_cache", <<address>>, None, "KeyError")
    /\ UNCHANGED <<hass_data, storages>>

ClearGattMtuCache(self, address) ==
    /\ instances' = [instances EXCEPT ![self].gatt_mtu_cache = LRUPop(@, address)]
    /\ ret' = Call("clear_gatt_mtu_cache", <<address>>, None, "")
    /\ UNCHANGED <<hass_data, storages>>

---------------------------------------------------------------------------
(* The observer: what a caller that sees only the calls and their results  *)
(* knows                                                                   *)

SeqWithout(s, x) == SelectSeq(s, LAMBDA y : y # x)

Touch(log, address) == Append(SeqWithout(log, address), address)

\* the address in keys whose last set or hit is the oldest
OldestIn(log, keys) ==
    log[CHOOSE i \in 1..Len(log) :
            /\ log[i] \in keys
            /\ \A j \in 1..(i - 1) : log[j] \notin keys]

\* what a least-recently-used cache of 128 entries holds after a set of
\* address to value, given what it held and the order of the last accesses
LiveAfterSet(live, log, address, value) ==
    IF address \notin DOMAIN live /\ Cardinality(DOMAIN live) >= 128
    THEN DictSet(DictPop(live, OldestIn(log, DOMAIN live)), address, value)
    ELSE DictSet(live, address, value)

Observe ==
    /\ first_get' = IF ret'.op = "get" /\ first_get = None THEN ret'.val ELSE first_get
    /\ registered' =
         IF ret'.op = "set_entry_data" /\ ret'.exc = ""
         THEN [registered EXCEPT ![ret'.arg[1]] = Some(ret'.arg[2])]
         ELSE IF ret'.op = "pop_entry_data"
         THEN [registered EXCEPT ![ret'.arg[1]] = None]
         ELSE registered
    /\ first_store' =
         IF ret'.op = "get_or_create_store" /\ first_store[ret'.arg[1]] = None
         THEN [first_store EXCEPT ![ret'.arg[1]] = ret'.val]
         ELSE first_store
    /\ services_log' =
         IF ret'.op = "set_gatt_services_cache"
            \/ (ret'.op = "get_gatt_services_cache" /\ ret'.val # None)
         THEN Touch(services_log, ret'.arg[1])
         ELSE IF ret'.op = "clear_gatt_services_cache"
         THEN SeqWithout(services_log, ret'.arg[1])
         ELSE services_log
    /\ mtu_log' =
         IF ret'.op = "set_gatt_mtu_cache"
            \/ (ret'.op = "get_gatt_mtu_cache" /\ ret'.val # None)
         THEN Touch(mtu_log, ret'.arg[1])
         ELSE IF ret'.op = "clear_gatt_mtu_cache"
         THEN SeqWithout(mtu_log, ret'.arg[1])
         ELSE mtu_log
    /\ services_live' =
         IF ret'.op = "set_gatt_services_cache"
         THEN LiveAfterSet(services_live, services_log, ret'.arg[1], ret'.arg[2])
         ELSE IF ret'.op = "clear_gatt_services_cache"
         THEN DictPop(services_live, ret'.arg[1])
         ELSE services_live
    /\ mtu_live' =
         IF ret'.op = "set_gatt_mtu_cache"
         THEN LiveAfterSet(mtu_live, mtu_log, ret'.arg[1], ret'.arg[2])
         ELSE IF ret'.op = "clear_gatt_mtu_cache"
         THEN DictPop(mtu_live, ret'.arg[1])
         ELSE mtu_live

---------------------------------------------------------------------------
(* The state before the first DomainData.get: hass.data has no DOMAIN key *)

Init ==
    /\ hass_data = 0
    /\ instances = << >>
    /\ storages = << >>
    /\ ret = Call("init", <<>>, None, "")
    /\ first_get = None
    /\ registered = [e \in EntryIds |-> None]
    /\ first_store = [e \in EntryIds |-> None]
    /\ services_log = << >>
    /\ mtu_log = << >>
    /\ services_live = EmptyDict
    /\ mtu_live = EmptyDict
    /\ probes = 0
    /\ loaded = [e \in EntryIds |-> FALSE]

(* Spec: every operation of the registry, on a few entries and addresses *)

Next ==
    \/ Get /\ Observe /\ UNCHANGED <<probes, loaded>>
    \/ \E e \in EntryIds :
           /\ hass_data # 0
           /\ GetEntryData(hass_data, e)
           /\ Observe /\ UNCHANGED <<probes, loaded>>
    \/ \E e \in EntryIds, d \in EntryDatas :
           /\ hass_data # 0
           /\ SetEntryData(hass_data, e, d)
           /\ Observe /\ UNCHANGED <<probes, loaded>>
    \/ \E e \in EntryIds :
           /\ hass_data # 0
           /\ PopEntryData(hass_data, e)
           /\ Observe /\ UNCHANGED <<probes, loaded>>
    \/ \E e \in EntryIds :
           /\ hass_data # 0
           /\ Len(storages) < MaxStorages
           /\ GetOrCreateStore(hass_data, e)
           /\ Observe /\ UNCHANGED <<probes, loaded>>
    \/ \E a \in Addresses :
           /\ hass_data # 0
           /\ GetGattServicesCache(hass_data, a)
           /\ Observe /\ UNCHANGED <<probes, loaded>>
    \/ \E a \in Addresses :
           /\ hass_data # 0
           /\ SetGattServicesCache(hass_data, a, "s1")
           /\ Observe /\ UNCHANGED <<probes, loaded>>
    \/ \E a \in Addresses :
           /\ hass_data # 0
           /\ ClearGattServicesCache(hass_data, a)
           /\ Observe /\ UNCHANGED <<probes, loaded>>
    \/ \E a \in Addresses :
           /\ hass_data # 0
           /\ GetGattMtuCache(hass_data, a)
           /\ Observe /\ UNCHANGED <<probes, loaded>>
    \/ \E a \in Addresses :
           /\ hass_data # 0
           /\ SetGattMtuCache(hass_data, a, 23)
           /\ Observe /\ UNCHANGED <<probes, loaded>>
    \/ \E a \in Addresses :
           /\ hass_data # 0
           /\ ClearGattMtuCache(hass_data, a)
           /\ Observe /\ UNCHANGED <<probes, loaded>>

Spec == Init /\ [][Next]_vars

(* SpecCache: both caches are first filled to capacity, one address after  *)
(* the other, and then probed with every cache call on a few addresses     *)

ServicesCache == instances[hass_data].gatt_services_cache

MtuCache == instances[hass_data].gatt_mtu_cache

Warm ==
    /\ Len(ServicesCache.items) >= MAX_CACHED_SERVICES
    /\ Len(MtuCache.items) >= MAX_CACHED_SERVICES

WarmServices ==
    /\ probes = 0
    /\ Len(MtuCache.items) = 0
    /\ Len(ServicesCache.items) < MAX_CACHED_SERVICES
    /\ SetGattServicesCache(hass_data, Len(ServicesCache.items) + 1, "s1")
    /\ UNCHANGED <<probes, loaded>>

WarmMtu ==
    /\ probes = 0
    /\ Len(ServicesCache.items) >= MAX_CACHED_SERVICES
    /\ Len(MtuCache.items) < MAX_CACHED_SERVICES
    /\ SetGattMtuCache(hass_data, Len(MtuCache.items) + 1, 23)
    /\ UNCHANGED <<probes, loaded>>

ProbeStep ==
    /\ hass_data # 0
    /\ probes > 0 \/ Warm
    /\ probes < MaxProbes
    /\ probes' = probes + 1
    /\ UNCHANGED loaded

NextCache ==
    \/ hass_data = 0 /\ Get /\ Observe /\ UNCHANGED <<probes, loaded>>
    \/ hass_data # 0 /\ WarmServices /\ Observe
    \/ hass_data # 0 /\ WarmMtu /\ Observe
    \/ \E a \in ProbeAddresses :
           ProbeStep /\ GetGattServicesCache(hass_data, a) /\ Observe
    \/ \E a \in ProbeAddresses, s \in Services :
           ProbeStep /\ SetGattServicesCache(hass_data, a, s) /\ Observe
    \/ \E a \in ProbeAddresses :
           ProbeStep /\ ClearGattServicesCache(hass_data, a) /\ Observe
    \/ \E a \in ProbeAddresses :
           ProbeStep /\ GetGattMtuCache(hass_data, a) /\ Observe
    \/ \E a \in ProbeAddresses, m \in Mtus :
           ProbeStep /\ SetGattMtuCache(hass_data, a, m) /\ Observe
    \/ \E a \in ProbeAddresses :
           ProbeStep /\ ClearGattMtuCache(hass_data, a) /\ Observe

SpecCache == Init /\ [][NextCache]_vars

---------------------------------------------------------------------------
(* Properties *)

Registry == instances[hass_data]

StoreHandles(r) == {r.stores[e] : e \in DOMAIN r.stores}

IsEmptyRegistry(r) ==
    /\ DOMAIN r.entry_datas = {}
    /\ DOMAIN r.stores = {}
    /\ Len(r.gatt_services_cache.items) = 0
    /\ Len(r.gatt_mtu_cache.items) = 0

\* C1: every DomainData.get returns the instance the first call returned, and
\* the instance the first call returns has an empty entry-data map, an empty
\* store map and two empty caches.
C1_SingletonIdentity ==
    /\ [](ret.op = "get" => ret.exc = "" /\ ret.val # None /\ ret.val = first_get)
    /\ [][(ret'.op = "get" /\ first_get = None)
            => \A i \in ret'.val : IsEmptyRegistry(instances'[i])]_vars

C1_Witness ==
    /\ ret.op = "get"
    /\ ret.val = first_get
    /\ DOMAIN Registry.entry_datas # {}
    /\ DOMAIN Registry.stores # {}
    /\ Len(Registry.gatt_mtu_cache.items) > 0

\* C2: get_entry_data(entry) returns exactly the data of the last successful
\* set_entry_data(entry, data) while no pop_entry_data(entry) has happened
\* since, whatever else was called in between; once pop_entry_data(entry)
\* has happened, get_entry_data(entry) raises KeyError.
C2_EntryDataRoundTrip ==
    ret.op = "get_entry_data" =>
        IF registered[ret.arg[1]] # None
        THEN ret.exc = "" /\ ret.val = registered[ret.arg[1]]
        ELSE ret.exc = "KeyError"

C2_Witness ==
    /\ ret.op = "get_entry_data"
    /\ ret.arg = <<"e1">>
    /\ ret.val = Some("d2")
    /\ registered["e2"] = Some("d1")
    /\ first_store["e1"] # None
    /\ Len(Registry.gatt_services_cache.items) > 0

\* C3: set_entry_data(entry, data2) while data1 is registered for the same
\* identifier raises ValueError and changes nothing: the identifier still
\* maps to data1.
C3_DoubleRegistrationRejected ==
    [][(ret'.op = "set_entry_data" /\ registered[ret'.arg[1]] # None)
         => /\ ret'.exc = "ValueError"
            /\ UNCHANGED program_vars
            /\ ret'.arg[1] \in DOMAIN Registry'.entry_datas
            /\ Some(Registry'.entry_datas[ret'.arg[1]]) = registered[ret'.arg[1]]]_vars

C3_Witness ==
    /\ ret.op = "set_entry_data"
    /\ ret.exc = "ValueError"
    /\ ret.arg = <<"e1", "d2">>
    /\ registered["e1"] = Some("d1")
    /\ Registry.entry_datas["e1"] = "d1"

\* C4: get_entry_data(entry) and pop_entry_data(entry) raise KeyError whenever
\* no data is registered for the identifier (never registered, or popped),
\* and the failing call leaves the entry-data map, the store map and both
\* caches unchanged.
C4_MissingEntryFails ==
    [][(ret'.op \in {"get_entry_data", "pop_entry_data"} /\ registered[ret'.arg[1]] = None)
         => /\ ret'.exc = "KeyError"
            /\ ret'.val = None
            /\ UNCHANGED program_vars]_vars

C4_Witness ==
    /\ ret.op = "pop_entry_data"
    /\ ret.exc = "KeyError"
    /\ ret.arg = <<"e1">>
    /\ registered["e2"] # None
    /\ DOMAIN Registry.entry_datas = {"e2"}
    /\ DOMAIN Registry.stores # {}
    /\ Len(Registry.gatt_services_cache.items) > 0
    /\ Len(Registry.gatt_mtu_cache.items) > 0

\* C5: every get_or_create_store for an identifier returns the handle the
\* first call for that identifier returned; handles of different identifiers
\* are different objects; each handle has key "esphome." + identifier and
\* version 1.
C5_StoreMemoized ==
    /\ ret.op = "get_or_create_store" =>
           ret.exc = "" /\ ret.val # None /\ ret.val = first_store[ret.arg[1]]
    /\ \A e \in EntryIds : \A h \in first_store[e] :
           /\ h \in 1..Len(storages)
           /\ storages[h].key = "esphome." \o e
           /\ storages[h].version = 1
    /\ \A e1, e2 \in EntryIds :
           e1 # e2 => first_store[e1] \cap first_store[e2] = {}

C5_Witness ==
    /\ ret.op = "get_or_create_store"
    /\ ret.arg = <<"e1">>
    /\ ret.val = Some(1)
    /\ first_store["e2"] = Some(2)
    /\ Len(storages) = 3

\* C6 as stated: a get_or_create_store for an identifier that already has a
\* handle constructs no handle object.
C6_NoReconstruction ==
    [][(ret'.op = "get_or_create_store" /\ first_store[ret'.arg[1]] # None)
         => storages' = storages]_vars

\* C6 amended: a get_or_create_store for an identifier that already has a
\* handle returns that handle and leaves the store map as it was; it
\* constructs exactly one more handle object, which is neither stored nor
\* returned.
C6_AtMostOneStored ==
    [][(ret'.op = "get_or_create_store" /\ first_store[ret'.arg[1]] # None)
         => /\ ret'.val = first_store[ret'.arg[1]]
            /\ Registry'.stores = Registry.stores
            /\ Len(storages') = Len(storages) + 1
            /\ SubSeq(storages', 1, Len(storages)) = storages
            /\ Len(storages') \notin StoreHandles(Registry')
            /\ Len(storages') \notin ret'.val]_vars

C6_Witness ==
    /\ ret.op = "get_or_create_store"
    /\ ret.arg = <<"e2">>
    /\ ret.val = Some(1)
    /\ Len(storages) = 2
    /\ StoreHandles(Registry) = {1}

\* C17: set_entry_data succeeds exactly when no data is registered for the
\* identifier, so on a never-registered identifier and again after a pop; in
\* every state an identifier maps to at most one data object, the one of the
\* last successful set.
C17_SetSucceedsIffAbsent ==
    /\ [](hass_data # 0 =>
            \A e \in EntryIds :
                IF registered[e] = None
                THEN e \notin DOMAIN Registry.entry_datas
                ELSE /\ e \in DOMAIN Registry.entry_datas
                     /\ registered[e] = Some(Registry.entry_datas[e]))
    /\ [][ret'.op = "set_entry_data" =>
            /\ ret'.exc \in {"", "ValueError"}
            /\ ret'.exc = "" <=> registered[ret'.arg[1]] = None
            /\ ret'.exc = "" =>
                   /\ ret'.arg[1] \in DOMAIN Registry'.entry_datas
                   /\ Registry'.entry_datas[ret'.arg[1]] = ret'.arg[2]]_vars

C17_Witness ==
    /\ ret.op = "set_entry_data"
    /\ ret.arg = <<"e2", "d1">>
    /\ ret.exc = ""
    /\ Registry.entry_datas["e2"] = "d1"
    /\ "e1" \in DOMAIN Registry.entry_datas
    /\ Registry.entry_datas["e1"] = "d2"
    /\ first_store["e2"] # None

\* C18: pop_entry_data on a registered identifier returns the object of the
\* last successful set and removes that identifier only: every other
\* identifier's data, the store map, both caches, the slot and the handles
\* are as before; get_entry_data changes nothing.
C18_PopRemovesOnlyThat ==
    [][/\ (ret'.op = "pop_entry_data" /\ registered[ret'.arg[1]] # None)
          => /\ ret'.exc = ""
             /\ ret'.val = registered[ret'.arg[1]]
             /\ DOMAIN Registry'.entry_datas = DOMAIN Registry.entry_datas \ {ret'.arg[1]}
             /\ \A e \in DOMAIN Registry'.entry_datas :
                    Registry'.entry_datas[e] = Registry.entry_datas[e]
             /\ Registry'.stores = Registry.stores
             /\ Registry'.gatt_services_cache = Registry.gatt_services_cache
             /\ Registry'.gatt_mtu_cache = Registry.gatt_mtu_cache
             /\ Len(instances') = Len(instances)
             /\ UNCHANGED <<hass_data, storages>>
       /\ ret'.op = "get_entry_data" => UNCHANGED program_vars]_vars

C18_Witness ==
    /\ ret.op = "pop_entry_data"
    /\ ret.arg = <<"e1">>
    /\ ret.val = Some("d1")
    /\ DOMAIN Registry.entry_datas = {"e2"}
    /\ Registry.entry_datas["e2"] = "d2"
    /\ DOMAIN Registry.stores = {"e1"}
    /\ Len(Registry.gatt_services_cache.items) = 2
    /\ Len(Registry.gatt_mtu_cache.items) = 1

---------------------------------------------------------------------------
(* Properties of the caches *)

ServicesCalls ==
    {"get_gatt_services_cache", "set_gatt_services_cache", "clear_gatt_services_cache"}

MtuCalls == {"get_gatt_mtu_cache", "set_gatt_mtu_cache", "clear_gatt_mtu_cache"}

\* the entries of a cache, as the set of its <<address, value>> pairs
LRUEntries(c) == {c.items[i] : i \in 1..Len(c.items)}

\* C7: each cache of every registry holds at most 128 entries, one per address.
C7_CachesBounded ==
    \A i \in 1..Len(instances) :
        /\ Len(instances[i].gatt_services_cache.items) <= 128
        /\ Len(instances[i].gatt_mtu_cache.items) <= 128
        /\ Cardinality(LRUKeys(instances[i].gatt_services_cache))
               = Len(instances[i].gatt_services_cache.items)
        /\ Cardinality(LRUKeys(instances[i].gatt_mtu_cache))
               = Len(instances[i].gatt_mtu_cache.items)

C7_Witness ==
    /\ hass_data # 0
    /\ Len(ServicesCache.items) = 128
    /\ Len(MtuCache.items) = 128
    /\ {129, 130} \subseteq LRUKeys(ServicesCache)
    /\ 129 \in LRUKeys(MtuCache)

\* a set of the absent address a with value v took the cache c, holding 128
\* entries, to d: the one entry gone is the least recently used by log, every
\* other entry is kept with its value and the new one can be looked up
EvictedLeastRecentlyUsed(c, d, log, a, v) ==
    LET lru == OldestIn(log, LRUKeys(c))
    IN  /\ LRUEntries(d) = (LRUEntries(c) \ {c.items[LRUIndex(c, lru)]}) \cup {<<a, v>>}
        /\ Len(d.items) = 128
        /\ LRUGetValue(d, lru) = None
        /\ LRUGetValue(d, a) = Some(v)
        /\ \A k \in ProbeAddresses \cap (LRUKeys(c) \ {lru}) :
               LRUGetValue(d, k) # None /\ LRUGetValue(d, k) = LRUGetValue(c, k)

\* after 129 sets of the addresses 1..129 in this order and nothing else,
\* address 1 is absent and 2..129 are present
FirstOf129Absent(d, log) ==
    (Len(log) = 129 /\ \A i \in 1..129 : log[i] = i)
        => /\ LRUGetValue(d, 1) = None
           /\ \A k \in 2..129 : LRUGetValue(d, k) # None

\* C8: a set of an address not in a cache that holds 128 entries evicts exactly
\* the least recently used entry and keeps every other entry and the new one;
\* after 129 distinct addresses set in order, the first is absent and the last
\* 128 are present.
C8_LruEviction ==
    [][/\ (/\ ret'.op = "set_gatt_services_cache"
           /\ ret'.arg[1] \notin LRUKeys(ServicesCache)
           /\ Len(ServicesCache.items) = 128)
          => EvictedLeastRecentlyUsed(ServicesCache, ServicesCache', services_log,
                                      ret'.arg[1], ret'.arg[2])
       /\ (/\ ret'.op = "set_gatt_mtu_cache"
           /\ ret'.arg[1] \notin LRUKeys(MtuCache)
           /\ Len(MtuCache.items) = 128)
          => EvictedLeastRecentlyUsed(MtuCache, MtuCache', mtu_log,
                                      ret'.arg[1], ret'.arg[2])
       /\ (ret'.op = "set_gatt_services_cache" /\ probes' = 1)
          => FirstOf129Absent(ServicesCache', services_log')
       /\ (ret'.op = "set_gatt_mtu_cache" /\ probes' = 1)
          => FirstOf129Absent(MtuCache', mtu_log')]_vars

C8_Witness ==
    /\ ret.op = "set_gatt_services_cache"
    /\ probes = 1
    /\ Len(services_log) = 129
    /\ services_log[129] = 129
    /\ LRUGetValue(ServicesCache, 1) = None
    /\ LRUGetValue(ServicesCache, 2) = Some("s1")
    /\ LRUGetValue(ServicesCache, 129) = Some("s2")

\* a set of the present address a with value v took the cache c to d
Overwritten(c, d, a, v) ==
    /\ LRUEntries(d) = (LRUEntries(c) \ {c.items[LRUIndex(c, a)]}) \cup {<<a, v>>}
    /\ Len(d.items) = Len(c.items)
    /\ LRUKeys(d) = LRUKeys(c)
    /\ LRUGetValue(d, a) = Some(v)

\* a set of an absent address took the full cache c to d: the address set or
\* hit last before it is still present
MostRecentSurvives(c, d, log) ==
    (Len(log) > 0 /\ log[Len(log)] \in LRUKeys(c)) => log[Len(log)] \in LRUKeys(d)

\* C9: a set of an address already in a cache replaces its value, keeps the
\* number of entries and every other entry, and makes the address the most
\* recently used: the next set of an absent address on the full cache does not
\* evict it.
C9_CacheOverwrite ==
    [][/\ (ret'.op = "set_gatt_services_cache" /\ ret'.arg[1] \in LRUKeys(ServicesCache))
          => Overwritten(ServicesCache, ServicesCache', ret'.arg[1], ret'.arg[2])
       /\ (ret'.op = "set_gatt_mtu_cache" /\ ret'.arg[1] \in LRUKeys(MtuCache))
          => Overwritten(MtuCache, MtuCache', ret'.arg[1], ret'.arg[2])
       /\ (/\ ret'.op = "set_gatt_services_cache"
           /\ ret'.arg[1] \notin LRUKeys(ServicesCache)
           /\ Len(ServicesCache.items) = 128)
          => MostRecentSurvives(ServicesCache, ServicesCache', services_log)
       /\ (/\ ret'.op = "set_gatt_mtu_cache"
           /\ ret'.arg[1] \notin LRUKeys(MtuCache)
           /\ Len(MtuCache.items) = 128)
          => MostRecentSurvives(MtuCache, MtuCache', mtu_log)]_vars

C9_Witness ==
    /\ ret.op = "set_gatt_services_cache"
    /\ ret.arg[1] = 129
    /\ probes = 2
    /\ Len(ServicesCache.items) = 128
    /\ LRUGetValue(ServicesCache, 1) = Some("s2")
    /\ LRUGetValue(ServicesCache, 2) = None

\* C10: a get, set or clear on the services cache leaves the MTU cache, its
\* entries and their order, as it was, and a get, set or clear on the MTU
\* cache leaves the services cache as it was.
C10_CachesIndependent ==
    [][/\ ret'.op \in ServicesCalls => MtuCache' = MtuCache
       /\ ret'.op \in MtuCalls => ServicesCache' = ServicesCache]_vars

C10_Witness ==
    /\ ret.op = "set_gatt_services_cache"
    /\ ret.arg[1] = 129
    /\ LRUGetValue(ServicesCache, 1) = None
    /\ LRUGetValue(MtuCache, 1) = Some(517)
    /\ LRUGetValue(MtuCache, 129) = None
    /\ Len(MtuCache.items) = 128


\* a clear of address took the cache c to d: an absent address changes
\* nothing, a present one loses exactly its entry and the rest keep their order
Cleared(c, d, address) ==
    IF address \in LRUKeys(c)
    THEN /\ LRUEntries(d) = LRUEntries(c) \ {c.items[LRUIndex(c, address)]}
         /\ Len(d.items) = Len(c.items) - 1
         /\ d.items = SeqWithout(c.items, c.items[LRUIndex(c, address)])
         /\ d.size = c.size
    ELSE d = c

\* C11: clear_gatt_services_cache and clear_gatt_mtu_cache never raise; on an
\* address with no entry they change nothing, on a cached address they remove
\* exactly its entry, and a clear repeated right after itself changes nothing.
C11_ClearIdempotent ==
    [][/\ ret'.op = "clear_gatt_services_cache"
          => /\ ret'.exc = "" /\ ret'.val = None
             /\ Cleared(ServicesCache, ServicesCache', ret'.arg[1])
             /\ LRUGetValue(ServicesCache', ret'.arg[1]) = None
             /\ (ret.op = ret'.op /\ ret.arg = ret'.arg) => ServicesCache' = ServicesCache
       /\ ret'.op = "clear_gatt_mtu_cache"
          => /\ ret'.exc = "" /\ ret'.val = None
             /\ Cleared(MtuCache, MtuCache', ret'.arg[1])
             /\ LRUGetValue(MtuCache', ret'.arg[1]) = None
             /\ (ret.op = ret'.op /\ ret.arg = ret'.arg) => MtuCache' = MtuCache]_vars

C11_Witness ==
    /\ ret.op = "clear_gatt_mtu_cache"
    /\ ret.arg = <<129>>
    /\ ret.exc = ""
    /\ probes = 3
    /\ Len(MtuCache.items) = 127
    /\ LRUGetValue(MtuCache, 1) = None
    /\ LRUGetValue(MtuCache, 2) = Some(23)
    /\ Len(ServicesCache.items) = 128

\* C12: get_gatt_services_cache and get_gatt_mtu_cache never raise; they
\* return the value of the last set of the address when that entry has been
\* neither cleared nor evicted since, and None otherwise.
C12_LookupNeverRaises ==
    /\ ret.op = "get_gatt_services_cache"
       => /\ ret.exc = ""
          /\ ret.val = IF ret.arg[1] \in DOMAIN services_live
                       THEN Some(services_live[ret.arg[1]])
                       ELSE None
    /\ ret.op = "get_gatt_mtu_cache"
       => /\ ret.exc = ""
          /\ ret.val = IF ret.arg[1] \in DOMAIN mtu_live
                       THEN Some(mtu_live[ret.arg[1]])
                       ELSE None

C12_Witness ==
    /\ ret.op = "get_gatt_services_cache"
    /\ ret.arg = <<1>>
    /\ ret.val = None
    /\ Len(services_log) = 129
    /\ services_log[1] = 1
    /\ LRUGetValue(ServicesCache, 129) = Some("s2")
    /\ LRUGetValue(MtuCache, 1) = Some(23)


\* C14: once get_or_create_store has returned a handle for an identifier,
\* the store map of the registry in the slot holds that handle for the
\* identifier in every later state, whatever else is called, and the handle
\* object keeps its key; a later get_or_create_store returns it.
C14_StoresOutliveEntryData ==
    \A e \in EntryIds :
        first_store[e] # None =>
            /\ hass_data # 0
            /\ e \in DOMAIN Registry.stores
            /\ Some(Registry.stores[e]) = first_store[e]
            /\ storages[Registry.stores[e]] = ESPHomeStorageNew(e)
            /\ (ret.op = "get_or_create_store" /\ ret.arg = <<e>>)
                   => ret.val = Some(Registry.stores[e])

C14_Witness ==
    /\ ret.op = "pop_entry_data"
    /\ ret.arg = <<"e1">>
    /\ ret.exc = ""
    /\ "e1" \notin DOMAIN Registry.entry_datas
    /\ first_store["e1"] = Some(1)
    /\ Registry.stores["e1"] = 1
    /\ Len(storages) = 2
    /\ Len(Registry.gatt_mtu_cache.items) > 0

\* C15: no registry exists and the slot is empty until the first
\* DomainData.get; the first get constructs one registry and stores it in the
\* slot; every later get returns the registry in the slot, constructs none
\* and does not write the slot.
C15_LazySingleton ==
    /\ [](IF first_get = None
          THEN hass_data = 0 /\ Len(instances) = 0
          ELSE hass_data # 0 /\ Len(instances) = 1 /\ first_get = Some(hass_data))
    /\ [][ret'.op = "get" =>
            IF hass_data = 0
            THEN /\ Len(instances') = Len(instances) + 1
                 /\ hass_data' = Len(instances')
                 /\ ret'.val = Some(hass_data')
            ELSE /\ instances' = instances
                 /\ hass_data' = hass_data
                 /\ ret'.val = Some(hass_data)]_vars

C15_Witness ==
    /\ ret.op = "get"
    /\ ret.val = Some(1)
    /\ hass_data = 1
    /\ Len(instances) = 1
    /\ Len(storages) > 0
    /\ registered["e1"] # None

\* a get that hit address was the last call; the set of an absent address
\* then took the full cache c to d: address is kept with its value and the
\* entry gone is the one whose last get or set is the oldest
HitSurvivesEviction(c, d, log, address, value) ==
    LET gone == LRUKeys(c) \ LRUKeys(d)
    IN  /\ address \in LRUKeys(d)
        /\ LRUGetValue(d, address) = value
        /\ log[Len(log)] = address
        /\ gone = {OldestIn(log, LRUKeys(c))}
        /\ address \notin gone

\* C16: a get that hits counts as a use: it leaves the entries as they are,
\* and when the next call sets an absent address on the full cache, the
\* address that was hit is kept and the entry evicted is the one that has
\* gone longest without a get or a set.
C16_HitRefreshesRecency ==
    [][/\ (ret'.op = "get_gatt_services_cache" /\ ret'.val # None)
          => /\ LRUEntries(ServicesCache') = LRUEntries(ServicesCache)
             /\ ServicesCache'.items[1] = <<ret'.arg[1], services_live[ret'.arg[1]]>>
       /\ (ret'.op = "get_gatt_mtu_cache" /\ ret'.val # None)
          => /\ LRUEntries(MtuCache') = LRUEntries(MtuCache)
             /\ MtuCache'.items[1] = <<ret'.arg[1], mtu_live[ret'.arg[1]]>>
       /\ (/\ ret.op = "get_gatt_services_cache" /\ ret.val # None
           /\ ret'.op = "set_gatt_services_cache"
           /\ ret'.arg[1] \notin LRUKeys(ServicesCache)
           /\ Len(ServicesCache.items) = 128)
          => HitSurvivesEviction(ServicesCache, ServicesCache', services_log,
                                 ret.arg[1], ret.val)
       /\ (/\ ret.op = "get_gatt_mtu_cache" /\ ret.val # None
           /\ ret'.op = "set_gatt_mtu_cache"
           /\ ret'.arg[1] \notin LRUKeys(MtuCache)
           /\ Len(MtuCache.items) = 128)
          => HitSurvivesEviction(MtuCache, MtuCache', mtu_log,
                                 ret.arg[1], ret.val)]_vars

C16_Witness ==
    /\ ret.op = "set_gatt_mtu_cache"
    /\ ret.arg = <<130, 517>>
    /\ probes = 2
    /\ Len(MtuCache.items) = 128
    /\ Len(mtu_log) = 129
    /\ mtu_log[128] = 1
    /\ LRUGetValue(MtuCache, 1) = Some(23)
    /\ LRUGetValue(MtuCache, 2) = None

---------------------------------------------------------------------------
(* SpecContract: callers that keep the usage contract.  An entry is set    *)
(* when it loads, looked up only while loaded and popped when it unloads;  *)
(* stores and caches are used freely.                                      *)

Load(e, d) ==
    /\ hass_data # 0
    /\ ~loaded[e]
    /\ SetEntryData(hass_data, e, d)
    /\ loaded' = [loaded EXCEPT ![e] = TRUE]

Lookup(e) ==
    /\ hass_data # 0
    /\ loaded[e]
    /\ GetEntryData(hass_data, e)
    /\ UNCHANGED loaded

Unload(e) ==
    /\ hass_data # 0
    /\ loaded[e]
    /\ PopEntryData(hass_data, e)
    /\ loaded' = [loaded EXCEPT ![e] = FALSE]

NextContract ==
    \/ Get /\ Observe /\ UNCHANGED <<probes, loaded>>
    \/ \E e \in EntryIds, d \in EntryDatas : Load(e, d) /\ Observe /\ UNCHANGED probes
    \/ \E e \in EntryIds : Lookup(e) /\ Observe /\ UNCHANGED probes
    \/ \E e \in EntryIds : Unload(e) /\ Observe /\ UNCHANGED probes
    \/ \E e \in EntryIds :
           /\ hass_data # 0
           /\ Len(storages) < MaxStorages
           /\ GetOrCreateStore(hass_data, e)
           /\ Observe /\ UNCHANGED <<probes, loaded>>
    \/ \E a \in Addresses :
           /\ hass_data # 0
           /\ GetGattServicesCache(hass_data, a)
           /\ Observe /\ UNCHANGED <<probes, loaded>>
    \/ \E a \in Addresses :
           /\ hass_data # 0
           /\ SetGattServicesCache(hass_data, a, "s1")
           /\ Observe /\ UNCHANGED <<probes, loaded>>
    \/ \E a \in Addresses :
           /\ hass_data # 0
           /\ ClearGattServicesCache(hass_data, a)
           /\ Observe /\ UNCHANGED <<probes, loaded>>
    \/ \E a \in Addresses :
           /\ hass_data # 0
           /\ GetGattMtuCache(hass_data, a)
           /\ Observe /\ UNCHANGED <<probes, loaded>>
    \/ \E a \in Addresses :
           /\ hass_data # 0
           /\ SetGattMtuCache(hass_data, a, 23)
           /\ Observe /\ UNCHANGED <<probes, loaded>>
    \/ \E a \in Addresses :
           /\ hass_data # 0
           /\ ClearGattMtuCache(hass_data, a)
           /\ Observe /\ UNCHANGED <<probes, loaded>>

SpecContract == Init /\ [][NextContract]_vars

\* C13: when set_entry_data is called once per load, get_entry_data and
\* pop_entry_data only while the entry is loaded and pop_entry_data once per
\* unload, no call of the registry raises, over any interleaving of the load
\* and unload cycles of several entries.
C13_ContractNeverFails == ret.exc = ""

C13_Witness ==
    /\ ret.op = "pop_entry_data"
    /\ ret.arg = <<"e1">>
    /\ ret.val = Some("d2")
    /\ ret.exc = ""
    /\ ~loaded["e1"]
    /\ loaded["e2"]
    /\ first_store["e1"] # None

====
